---- MODULE Spec2Model ----
(***************************************************************************)
(* The accounting core of the Solana DeFi lending protocol: GlobalConfig,  *)
(* the per-asset Market records, interest accrual, the rate model, and the *)
(* supply / borrow / repay / withdraw / liquidate / create_market          *)
(* instructions, as a state machine over the persisted account data.       *)
(*                                                                         *)
(* The program computes in u64 and u128.  TLC's integers are 32 bits wide, *)
(* so every u64/u128 quantity is a natural number held as the sequence of  *)
(* its base-1000 digits, least significant first, without leading zeros    *)
(* (zero is <<>>).  The arithmetic below is exact; the widths of the Rust  *)
(* types are applied where the code applies them (checked_* and `as`).     *)
(***************************************************************************)
EXTENDS Integers, Sequences, FiniteSets, TLC

(***************************************************************************)
(* Exact natural-number arithmetic on digit sequences.                     *)
(***************************************************************************)
BASE == 10 ^ 3

RECURSIVE Nat2Big(_)
Nat2Big(i) == IF i = 0 THEN <<>> ELSE <<i % BASE>> \o Nat2Big(i \div BASE)

RECURSIVE Big2Nat(_)
Big2Nat(a) == IF a = <<>> THEN 0 ELSE a[1] + BASE * Big2Nat(Tail(a))

\* Dec(<<1, 50, 0>>) is 1_050_000: the decimal groups as they are written.
Dec(groups) == LET n == Len(groups)
                   RECURSIVE Lead(_)
                   Lead(k) == IF k > n THEN n + 1
                              ELSE IF groups[k] # 0 THEN k ELSE Lead(k + 1)
                   first == Lead(1)
               IN  [i \in 1..(n + 1 - first) |-> groups[n + 1 - i]]

Digit(a, i) == IF i <= Len(a) THEN a[i] ELSE 0

RECURSIVE Trim(_)
Trim(a) == IF a = <<>> THEN a
           ELSE IF a[Len(a)] = 0 THEN Trim(SubSeq(a, 1, Len(a) - 1)) ELSE a

RECURSIVE CmpAt(_, _, _)
CmpAt(a, b, i) == IF i = 0 THEN 0
                  ELSE IF a[i] < b[i] THEN -1
                  ELSE IF a[i] > b[i] THEN 1
                  ELSE CmpAt(a, b, i - 1)

Cmp(a, b) == IF Len(a) < Len(b) THEN -1
             ELSE IF Len(a) > Len(b) THEN 1
             ELSE CmpAt(a, b, Len(a))

Lt(a, b) == Cmp(a, b) < 0
Le(a, b) == Cmp(a, b) <= 0
Gt(a, b) == Cmp(a, b) > 0
Ge(a, b) == Cmp(a, b) >= 0

RECURSIVE AddC(_, _, _, _)
AddC(a, b, i, c) ==
    IF i > Len(a) /\ i > Len(b) THEN (IF c = 0 THEN <<>> ELSE <<c>>)
    ELSE LET s == Digit(a, i) + Digit(b, i) + c
         IN  <<s % BASE>> \o AddC(a, b, i + 1, s \div BASE)

Add(a, b) == AddC(a, b, 1, 0)

RECURSIVE SubC(_, _, _, _)
SubC(a, b, i, c) ==
    IF i > Len(a) THEN <<>>
    ELSE LET s == a[i] - Digit(b, i) - c
         IN  IF s < 0 THEN <<s + BASE>> \o SubC(a, b, i + 1, 1)
             ELSE <<s>> \o SubC(a, b, i + 1, 0)

\* a - b for a >= b
Sub(a, b) == Trim(SubC(a, b, 1, 0))

\* a * k for one digit k
RECURSIVE MulDigit(_, _, _, _)
MulDigit(a, k, i, c) ==
    IF i > Len(a) THEN (IF c = 0 THEN <<>> ELSE <<c>>)
    ELSE LET s == a[i] * k + c
         IN  <<s % BASE>> \o MulDigit(a, k, i + 1, s \div BASE)

\* a * BASE
Shift(a) == IF a = <<>> THEN a ELSE <<0>> \o a

\* a * (the digits of b from the j-th on), one row per digit of b
RECURSIVE MulRows(_, _, _)
MulRows(a, b, j) ==
    IF j > Len(b) THEN <<>>
    ELSE IF b[j] = 0 THEN Shift(MulRows(a, b, j + 1))
    ELSE IF j = Len(b) THEN MulDigit(a, b[j], 1, 0)
    ELSE Add(MulDigit(a, b[j], 1, 0), Shift(MulRows(a, b, j + 1)))

Mul(a, b) == IF a = <<>> \/ b = <<>> THEN <<>>
             ELSE IF Len(a) < Len(b) THEN MulRows(b, a, 1)
             ELSE MulRows(a, b, 1)

\* Division by one digit k, from the most significant digit:
\* <<quotient digits, remainder>>
RECURSIVE DivDigit(_, _, _, _)
DivDigit(a, k, i, r) ==
    IF i = 0 THEN <<<<>>, r>>
    ELSE LET put(q, rest) == <<Append(rest[1], q), rest[2]>>
             digit(num)   == put(num \div k, DivDigit(a, k, i - 1, num % k))
         IN  digit(r * BASE + a[i])

\* The next quotient digit of r \div d, for d <= r < d * BASE and d of two or
\* more digits: the estimate from the leading digits is the digit or one more.
QDigit(r, d) ==
    LET fit(q)   == IF Le(MulDigit(d, q, 1, 0), r) THEN q ELSE q - 1
        cap(hi)  == fit(IF hi > BASE - 1 THEN BASE - 1 ELSE hi)
        lead(n)  == cap((Digit(r, n + 1) * BASE * BASE + r[n] * BASE + r[n - 1])
                        \div (d[n] * BASE + d[n - 1]))
    IN  lead(Len(d))

\* Long division from the most significant digit: <<quotient digits, remainder>>
RECURSIVE DivStep(_, _, _, _)
DivStep(a, d, i, r) ==
    IF i = 0 THEN <<<<>>, r>>
    ELSE LET put(q, rest) == <<Append(rest[1], q), rest[2]>>
             digit(r1, q) ==
                 put(q, DivStep(a, d, i - 1,
                                IF q = 0 THEN r1 ELSE Sub(r1, MulDigit(d, q, 1, 0))))
             next(r1) == digit(r1, IF Lt(r1, d) THEN 0 ELSE QDigit(r1, d))
         IN  next(IF r = <<>> /\ a[i] = 0 THEN <<>> ELSE <<a[i]>> \o r)

\* d is BASE^(Len(d) - 1)
IsPowerOfBase(d) == d[Len(d)] = 1 /\ \A i \in 1..(Len(d) - 1) : d[i] = 0

\* <<floor(a / d), a mod d>> for d # 0
DivMod(a, d) ==
    IF Lt(a, d) THEN <<<<>>, a>>
    ELSE IF IsPowerOfBase(d)
    THEN <<SubSeq(a, Len(d), Len(a)), Trim(SubSeq(a, 1, Len(d) - 1))>>
    ELSE IF Len(d) = 1
    THEN LET short(qr) == <<Trim(qr[1]), Nat2Big(qr[2])>>
         IN  short(DivDigit(a, d[1], Len(a), 0))
    ELSE LET long(qr) == <<Trim(qr[1]), qr[2]>>
         IN  long(DivStep(a, d, Len(a) - Len(d) + 1,
                          SubSeq(a, Len(a) - Len(d) + 2, Len(a))))

Div(a, d) == DivMod(a, d)[1]
Mod(a, d) == DivMod(a, d)[2]

ZERO == <<>>
ONE  == <<1>>

(***************************************************************************)
(* The Rust integer types: checked operations return NONE on overflow, and *)
(* NONE propagates through a chain as `?` returns the error; `as` casts    *)
(* reduce modulo the width.                                                *)
(***************************************************************************)
NONE == <<-1>>

U16_MOD  == Dec(<<65, 536>>)
U64_MOD  == Dec(<<18, 446, 744, 73, 709, 551, 616>>)
U128_MOD == Dec(<<340, 282, 366, 920, 938, 463, 463, 374, 607, 431, 768, 211, 456>>)
U64_MAX  == Sub(U64_MOD, ONE)

checked_add(a, b, width) ==
    IF a = NONE \/ b = NONE THEN NONE
    ELSE LET fits(s) == IF Lt(s, width) THEN s ELSE NONE IN fits(Add(a, b))

checked_sub(a, b) ==
    IF a = NONE \/ b = NONE THEN NONE
    ELSE IF Lt(a, b) THEN NONE ELSE Sub(a, b)

checked_mul(a, b, width) ==
    IF a = NONE \/ b = NONE THEN NONE
    ELSE LET fits(p) == IF Lt(p, width) THEN p ELSE NONE IN fits(Mul(a, b))

checked_div(a, d) ==
    IF a = NONE \/ d = NONE \/ d = ZERO THEN NONE ELSE Div(a, d)

as_cast(a, width) ==
    IF a = NONE THEN NONE
    ELSE IF Lt(a, width) THEN a ELSE Mod(a, width)

(***************************************************************************)
(* constants.rs                                                            *)
(***************************************************************************)
MAX_MARKETS                   == 50
MIN_LIQUIDATION_THRESHOLD_BPS == 8000
MAX_LTV_BPS                   == 8000
PROTOCOL_FEE_BPS              == 500
LIQUIDATION_BONUS_BPS         == 500
OPTIMAL_UTILIZATION_BPS       == 8000
BPS_SCALE                     == 10000
BASE_RATE_PER_SECOND          == Dec(<<634, 195, 839>>)
SLOPE_1_PER_SECOND            == Dec(<<3, 170, 979, 196>>)
SLOPE_2_PER_SECOND            == Dec(<<31, 709, 791, 959>>)
INTEREST_SCALE                == Dec(<<1, 0, 0, 0, 0, 0, 0>>)
MIN_BORROW_AMOUNT             == Dec(<<10, 0, 0>>)
MIN_SUPPLY_AMOUNT             == Dec(<<100, 0, 0>>)

\* errors.rs, and the outcome of a call
OK == "Ok"

\* the utilization without the early return for an empty market
calculate_utilization_rate_unguarded(total_borrowed, total_supplied) ==
    LET cast(utilization) ==
            IF utilization = NONE THEN -1
            ELSE Big2Nat(as_cast(utilization, U16_MOD))
    IN  cast(checked_div(checked_mul(total_borrowed, Nat2Big(BPS_SCALE), U128_MOD),
                         total_supplied))

(***************************************************************************)
(* math.rs                                                                 *)
(***************************************************************************)
\* Result<u16>: the utilization in basis points, as an integer
calculate_utilization_rate(total_borrowed, total_supplied) ==
    IF total_supplied = ZERO THEN 0
    ELSE LET cast(utilization) ==
                 IF utilization = NONE THEN -1
                 ELSE Big2Nat(as_cast(utilization, U16_MOD))
         IN  cast(checked_div(checked_mul(total_borrowed, Nat2Big(BPS_SCALE), U128_MOD),
                              total_supplied))

\* a curve whose upper branch starts again from the base rate
calculate_borrow_rate_gap(utilization_bps) ==
    LET optimal_util == Nat2Big(OPTIMAL_UTILIZATION_BPS)
        util         == Nat2Big(utilization_bps)
    IN  IF utilization_bps <= OPTIMAL_UTILIZATION_BPS
        THEN checked_add(BASE_RATE_PER_SECOND,
                         checked_div(checked_mul(SLOPE_1_PER_SECOND, util, U64_MOD),
                                     optimal_util),
                         U64_MOD)
        ELSE LET excess_util == checked_sub(util, optimal_util)
                 excess_util_ratio ==
                     checked_div(checked_mul(excess_util, INTEREST_SCALE, U128_MOD),
                                 Nat2Big(BPS_SCALE - OPTIMAL_UTILIZATION_BPS))
                 excess_rate ==
                     checked_div(checked_mul(SLOPE_2_PER_SECOND, excess_util_ratio, U128_MOD),
                                 INTEREST_SCALE)
             IN  checked_add(BASE_RATE_PER_SECOND, as_cast(excess_rate, U64_MOD), U64_MOD)

\* Result<u64>
calculate_borrow_rate(utilization_bps) ==
    LET optimal_util == Nat2Big(OPTIMAL_UTILIZATION_BPS)
        util         == Nat2Big(utilization_bps)
    IN  IF utilization_bps <= OPTIMAL_UTILIZATION_BPS
        THEN checked_add(BASE_RATE_PER_SECOND,
                         checked_div(checked_mul(SLOPE_1_PER_SECOND, util, U64_MOD),
                                     optimal_util),
                         U64_MOD)
        ELSE LET excess_util == checked_sub(util, optimal_util)
                 excess_util_ratio ==
                     checked_div(checked_mul(excess_util, INTEREST_SCALE, U128_MOD),
                                 Nat2Big(BPS_SCALE - OPTIMAL_UTILIZATION_BPS))
                 excess_rate ==
                     checked_div(checked_mul(SLOPE_2_PER_SECOND, excess_util_ratio, U128_MOD),
                                 INTEREST_SCALE)
             IN  checked_add(checked_add(BASE_RATE_PER_SECOND, SLOPE_1_PER_SECOND, U64_MOD),
                             as_cast(excess_rate, U64_MOD),
                             U64_MOD)

\* Result<u64>
calculate_supply_rate(borrow_rate, utilization_bps) ==
    LET utilization  == Nat2Big(utilization_bps)
        protocol_fee == PROTOCOL_FEE_BPS
        supply_rate  ==
            checked_div(
                checked_div(
                    checked_mul(checked_mul(borrow_rate, utilization, U128_MOD),
                                Nat2Big(BPS_SCALE - protocol_fee), U128_MOD),
                    Nat2Big(BPS_SCALE)),
                Nat2Big(BPS_SCALE))
    IN  as_cast(supply_rate, U64_MOD)

\* Result<u16>, as a natural number: u16::MAX without debt, else the collateral
\* weighted by the threshold over the debt, in basis points, cast to u16
calculate_health_factor(collateral_value, liquidation_threshold_bps, borrowed_value) ==
    IF borrowed_value = ZERO THEN Sub(U16_MOD, ONE)
    ELSE LET scaled(adjusted_collateral) ==
                 as_cast(checked_div(checked_mul(adjusted_collateral, Nat2Big(BPS_SCALE),
                                                 U128_MOD),
                                     borrowed_value),
                         U16_MOD)
         IN  scaled(checked_div(checked_mul(collateral_value,
                                            Nat2Big(liquidation_threshold_bps), U128_MOD),
                                Nat2Big(BPS_SCALE)))

\* a bonus of twice LIQUIDATION_BONUS_BPS
calculate_liquidation_bonus_twice(amount) ==
    as_cast(checked_div(checked_mul(amount, Nat2Big(2 * LIQUIDATION_BONUS_BPS), U128_MOD),
                        Nat2Big(BPS_SCALE)),
            U64_MOD)

\* Result<u64>
calculate_liquidation_bonus(amount) ==
    as_cast(checked_div(checked_mul(amount, Nat2Big(LIQUIDATION_BONUS_BPS), U128_MOD),
                        Nat2Big(BPS_SCALE)),
            U64_MOD)

\* Result<u128>
calculate_exchange_rate(total_supplied, total_supply_tokens) ==
    IF total_supply_tokens = ZERO THEN INTEREST_SCALE
    ELSE checked_div(checked_mul(total_supplied, INTEREST_SCALE, U128_MOD),
                     total_supply_tokens)

(***************************************************************************)
(* state.rs: the Market account and interest accrual                       *)
(***************************************************************************)
\* A market account that `init` has not created yet
NoMarket ==
    [exists |-> FALSE, market_id |-> 0, asset_mint |-> "", supply_mint |-> "",
     ltv_bps |-> 0, liquidation_threshold_bps |-> 0,
     total_supplied |-> ZERO, total_borrowed |-> ZERO, total_supply_tokens |-> ZERO,
     last_accrual_timestamp |-> 0,
     cumulative_borrow_rate |-> ZERO, cumulative_supply_rate |-> ZERO,
     paused |-> FALSE, created_at |-> 0]

\* Market::initialize that leaves the new market paused
Market_initialize_paused(self, market_id, asset, ltv_bps, liquidation_threshold_bps, unix_timestamp) ==
    IF ~(liquidation_threshold_bps > ltv_bps)
    THEN [err |-> "LiquidationThresholdTooLow", m |-> self]
    ELSE IF ~(ltv_bps <= MAX_LTV_BPS)
    THEN [err |-> "InvalidLtvRatio", m |-> self]
    ELSE IF ~(liquidation_threshold_bps >= MIN_LIQUIDATION_THRESHOLD_BPS)
    THEN [err |-> "InvalidLiquidationThreshold", m |-> self]
    ELSE [err |-> OK,
          m |-> [exists |-> TRUE, market_id |-> market_id,
                 asset_mint |-> asset, supply_mint |-> asset,
                 ltv_bps |-> ltv_bps,
                 liquidation_threshold_bps |-> liquidation_threshold_bps,
                 total_supplied |-> ZERO, total_borrowed |-> ZERO,
                 total_supply_tokens |-> ZERO,
                 last_accrual_timestamp |-> unix_timestamp,
                 cumulative_borrow_rate |-> INTEREST_SCALE,
                 cumulative_supply_rate |-> INTEREST_SCALE,
                 paused |-> TRUE, created_at |-> unix_timestamp]]

\* Market::initialize without the bound on ltv_bps
Market_initialize_any_ltv(self, market_id, asset, ltv_bps, liquidation_threshold_bps, unix_timestamp) ==
    IF ~(liquidation_threshold_bps > ltv_bps)
    THEN [err |-> "LiquidationThresholdTooLow", m |-> self]
    ELSE IF ~(liquidation_threshold_bps >= MIN_LIQUIDATION_THRESHOLD_BPS)
    THEN [err |-> "InvalidLiquidationThreshold", m |-> self]
    ELSE [err |-> OK,
          m |-> [exists |-> TRUE, market_id |-> market_id,
                 asset_mint |-> asset, supply_mint |-> asset,
                 ltv_bps |-> ltv_bps,
                 liquidation_threshold_bps |-> liquidation_threshold_bps,
                 total_supplied |-> ZERO, total_borrowed |-> ZERO,
                 total_supply_tokens |-> ZERO,
                 last_accrual_timestamp |-> unix_timestamp,
                 cumulative_borrow_rate |-> INTEREST_SCALE,
                 cumulative_supply_rate |-> INTEREST_SCALE,
                 paused |-> FALSE, created_at |-> unix_timestamp]]

\* Market::initialize: Result<()> and the account as the call leaves it
Market_initialize(self, market_id, asset, ltv_bps, liquidation_threshold_bps, unix_timestamp) ==
    IF ~(liquidation_threshold_bps > ltv_bps)
    THEN [err |-> "LiquidationThresholdTooLow", m |-> self]
    ELSE IF ~(ltv_bps <= MAX_LTV_BPS)
    THEN [err |-> "InvalidLtvRatio", m |-> self]
    ELSE IF ~(liquidation_threshold_bps >= MIN_LIQUIDATION_THRESHOLD_BPS)
    THEN [err |-> "InvalidLiquidationThreshold", m |-> self]
    ELSE [err |-> OK,
          m |-> [exists |-> TRUE, market_id |-> market_id,
                 asset_mint |-> asset, supply_mint |-> asset,
                 ltv_bps |-> ltv_bps,
                 liquidation_threshold_bps |-> liquidation_threshold_bps,
                 total_supplied |-> ZERO, total_borrowed |-> ZERO,
                 total_supply_tokens |-> ZERO,
                 last_accrual_timestamp |-> unix_timestamp,
                 cumulative_borrow_rate |-> INTEREST_SCALE,
                 cumulative_supply_rate |-> INTEREST_SCALE,
                 paused |-> FALSE, created_at |-> unix_timestamp]]

\* (now - last_accrual_timestamp) as u64.  The timestamps of the model are far
\* from the ends of i64, so the checked_sub itself never fails; a negative
\* difference is reinterpreted by the cast as 2^64 - |difference|.
seconds_as_u64(difference) ==
    IF difference >= 0 THEN Nat2Big(difference)
    ELSE Sub(U64_MOD, Nat2Big(-difference))

\* a multiplier that leaves out the INTEREST_SCALE term
interest_growth_only(rate_per_second, seconds_elapsed) ==
    checked_div(checked_mul(rate_per_second, seconds_elapsed, U128_MOD), INTEREST_SCALE)

\* INTEREST_SCALE + rate * seconds / INTEREST_SCALE, the multiplier of an index
\* (the + is unchecked in the code and cannot overflow u128 here)
interest_factor(rate_per_second, seconds_elapsed) ==
    LET plus(growth) == IF growth = NONE THEN NONE ELSE Add(INTEREST_SCALE, growth)
    IN  plus(checked_div(checked_mul(rate_per_second, seconds_elapsed, U128_MOD),
                         INTEREST_SCALE))

\* Market::accrue_interest from the utilization on, for a market with a balance
\* and seconds_elapsed seconds to accrue: Result<()> and the account as the call
\* leaves it, fields assigned before a failing step included.  The statements
\* of the function are the local operators, last statement first.
accrue_elapsed(self, unix_timestamp, seconds_elapsed) ==
    LET assigned(utilization_bps, borrow_rate_per_second, supply_rate_per_second,
                 new_borrow_rate, new_supply_rate, new_total_borrowed, new_total_supplied) ==
            LET s1 == [self EXCEPT !.cumulative_borrow_rate = new_borrow_rate]
                s2 == [s1 EXCEPT !.cumulative_supply_rate = new_supply_rate]
                s3 == [s2 EXCEPT !.total_borrowed = new_total_borrowed]
                s4 == [s3 EXCEPT !.total_supplied = new_total_supplied]
            IN  IF utilization_bps = -1 \/ borrow_rate_per_second = NONE
                   \/ supply_rate_per_second = NONE \/ new_borrow_rate = NONE
                THEN [err |-> "MathOverflow", m |-> self]
                ELSE IF new_supply_rate = NONE THEN [err |-> "MathOverflow", m |-> s1]
                ELSE IF new_total_borrowed = NONE THEN [err |-> "MathOverflow", m |-> s2]
                ELSE IF new_total_supplied = NONE THEN [err |-> "MathOverflow", m |-> s3]
                ELSE [err |-> OK, m |-> [s4 EXCEPT !.last_accrual_timestamp = unix_timestamp]]
        \* self.total_borrowed and self.total_supplied, each times its new index
        totals(utilization_bps, borrow_rate_per_second, supply_rate_per_second,
               new_borrow_rate, new_supply_rate) ==
            assigned(utilization_bps, borrow_rate_per_second, supply_rate_per_second,
                     new_borrow_rate, new_supply_rate,
                     as_cast(checked_div(checked_mul(self.total_borrowed, new_borrow_rate,
                                                     U128_MOD),
                                         INTEREST_SCALE),
                             U64_MOD),
                     as_cast(checked_div(checked_mul(self.total_supplied, new_supply_rate,
                                                     U128_MOD),
                                         INTEREST_SCALE),
                             U64_MOD))
        \* self.cumulative_borrow_rate and self.cumulative_supply_rate
        indices(utilization_bps, borrow_rate_per_second, supply_rate_per_second) ==
            totals(utilization_bps, borrow_rate_per_second, supply_rate_per_second,
                   checked_div(checked_mul(self.cumulative_borrow_rate,
                                           interest_factor(borrow_rate_per_second,
                                                           seconds_elapsed),
                                           U128_MOD),
                               INTEREST_SCALE),
                   checked_div(checked_mul(self.cumulative_supply_rate,
                                           interest_factor(supply_rate_per_second,
                                                           seconds_elapsed),
                                           U128_MOD),
                               INTEREST_SCALE))
        rates(utilization_bps, borrow_rate_per_second) ==
            indices(utilization_bps, borrow_rate_per_second,
                    calculate_supply_rate(borrow_rate_per_second, utilization_bps))
        utilization(utilization_bps) ==
            rates(utilization_bps, calculate_borrow_rate(utilization_bps))
    IN  utilization(calculate_utilization_rate(self.total_borrowed, self.total_supplied))

\* accrual that does not return early when no time has passed
accrue_interest_every_call(self, unix_timestamp) ==
    IF self.total_supplied = ZERO /\ self.total_borrowed = ZERO
    THEN [err |-> OK, m |-> [self EXCEPT !.last_accrual_timestamp = unix_timestamp]]
    ELSE accrue_elapsed(self, unix_timestamp,
                        seconds_as_u64(unix_timestamp - self.last_accrual_timestamp))

\* Market::accrue_interest
accrue_interest(self, unix_timestamp) ==
    IF self.total_supplied = ZERO /\ self.total_borrowed = ZERO
    THEN [err |-> OK, m |-> [self EXCEPT !.last_accrual_timestamp = unix_timestamp]]
    ELSE
    LET seconds_elapsed == seconds_as_u64(unix_timestamp - self.last_accrual_timestamp)
    IN  IF seconds_elapsed = ZERO THEN [err |-> OK, m |-> self]
        ELSE accrue_elapsed(self, unix_timestamp, seconds_elapsed)

(***************************************************************************)
(* state.rs: the BorrowPosition account                                    *)
(***************************************************************************)
\* A BorrowPosition account that has not been created
NoPosition ==
    [exists |-> FALSE, borrowed_amount |-> ZERO,
     cumulative_borrow_rate_snapshot |-> ZERO, created_at |-> 0, last_updated |-> 0]

\* BorrowPosition::initialize
BorrowPosition_initialize(self, borrowed_amount, cumulative_rate, unix_timestamp) ==
    [self EXCEPT !.exists = TRUE,
                 !.borrowed_amount = borrowed_amount,
                 !.cumulative_borrow_rate_snapshot = cumulative_rate,
                 !.created_at = unix_timestamp,
                 !.last_updated = unix_timestamp]

\* BorrowPosition::calculate_debt: Result<u64>, NONE for the MathOverflow error
calculate_debt(self, market) ==
    as_cast(checked_div(checked_mul(self.borrowed_amount, market.cumulative_borrow_rate,
                                    U128_MOD),
                        self.cumulative_borrow_rate_snapshot),
            U64_MOD)

(***************************************************************************)
(* The instruction handlers.  A handler works on the accounts loaded in    *)
(* memory: c.config (GlobalConfig), c.markets (the Market accounts by      *)
(* asset), c.vault (the token balance of each market's reserve vault),     *)
(* c.shares (the supply of each market's share mint), c.held (the share    *)
(* tokens in each wallet's supply account) and c.positions (the            *)
(* BorrowPosition accounts).  It returns the error, or OK, and the         *)
(* accounts as it leaves them.  Callers are taken to hold the underlying   *)
(* tokens they pay in; a transfer out of a vault, or a burn, fails in the  *)
(* token program when the balance is short.                                *)
(***************************************************************************)
\* A handler's result: the error or OK, the accounts as it leaves them, and the
\* Market accounts as its accrue_interest calls left them
Fail(e, c, accrued) == [err |-> e, c |-> c, accrued |-> accrued]
Done(c, accrued)    == [err |-> OK, c |-> c, accrued |-> accrued]

\* instructions/market.rs
create_market_handler(c, asset, ltv_bps, liquidation_threshold_bps, unix_timestamp) ==
    IF ~(c.config.market_count < MAX_MARKETS) THEN Fail("InvalidMarketConfig", c, c.markets)
    ELSE
    LET market_id == c.config.market_count
        init == Market_initialize(c.markets[asset], market_id, asset, ltv_bps,
                                  liquidation_threshold_bps, unix_timestamp)
        c1 == [c EXCEPT !.markets[asset] = init.m]
    IN  IF init.err # OK THEN Fail(init.err, c1, c.markets)
        ELSE IF c1.config.market_count + 1 > 255 THEN Fail("MathOverflow", c1, c.markets)
        ELSE Done([c1 EXCEPT !.config.market_count = @ + 1], c.markets)

\* supply that adds the amount, not the tokens minted, to total_supply_tokens
supply_handler_counts_amount(c, user, asset, amount, unix_timestamp) ==
    IF c.markets[asset].paused THEN Fail("MarketPaused", c, c.markets)
    ELSE IF ~Ge(amount, MIN_SUPPLY_AMOUNT) THEN Fail("InvalidAmount", c, c.markets)
    ELSE
    LET minted(acc, exchange_rate, supply_tokens) ==
            LET market == acc.m
                c1     == [c EXCEPT !.markets[asset] = market]
                vault1 == checked_add(c1.vault[asset], amount, U64_MOD)
                c2     == [c1 EXCEPT !.vault[asset] = vault1]
                shares1 == checked_add(c2.shares[asset], supply_tokens, U64_MOD)
                c3      == [c2 EXCEPT !.shares[asset] = shares1,
                                      !.held[user][asset] = Add(@, supply_tokens)]
                total_supplied == checked_add(market.total_supplied, amount, U64_MOD)
                c4      == [c3 EXCEPT !.markets[asset].total_supplied = total_supplied]
                total_supply_tokens ==
                    checked_add(market.total_supply_tokens, amount, U64_MOD)
                c5      == [c4 EXCEPT !.markets[asset].total_supply_tokens = total_supply_tokens]
            IN  IF acc.err # OK THEN Fail(acc.err, c1, c1.markets)
                ELSE IF vault1 = NONE THEN Fail("TokenError", c1, c1.markets)
                ELSE IF exchange_rate = NONE \/ supply_tokens = NONE
                THEN Fail("MathOverflow", c2, c1.markets)
                ELSE IF shares1 = NONE THEN Fail("TokenError", c2, c1.markets)
                ELSE IF total_supplied = NONE THEN Fail("MathOverflow", c3, c1.markets)
                ELSE IF total_supply_tokens = NONE THEN Fail("MathOverflow", c4, c1.markets)
                ELSE Done(c5, c1.markets)
        priced(acc, exchange_rate) ==
            minted(acc, exchange_rate,
                   as_cast(checked_div(checked_mul(amount, INTEREST_SCALE, U128_MOD),
                                       exchange_rate),
                           U64_MOD))
        accrued(acc) ==
            priced(acc, IF acc.m.total_supply_tokens = ZERO THEN INTEREST_SCALE
                        ELSE calculate_exchange_rate(acc.m.total_supplied,
                                                     acc.m.total_supply_tokens))
    IN  accrued(accrue_interest(c.markets[asset], unix_timestamp))

\* instructions/supply.rs; user_supply_account, any account of the share mint,
\* is taken to be the caller's
supply_handler(c, user, asset, amount, unix_timestamp) ==
    IF c.markets[asset].paused THEN Fail("MarketPaused", c, c.markets)
    ELSE IF ~Ge(amount, MIN_SUPPLY_AMOUNT) THEN Fail("InvalidAmount", c, c.markets)
    ELSE
    LET minted(acc, exchange_rate, supply_tokens) ==
            LET market == acc.m
                c1     == [c EXCEPT !.markets[asset] = market]
                vault1 == checked_add(c1.vault[asset], amount, U64_MOD)
                c2     == [c1 EXCEPT !.vault[asset] = vault1]
                shares1 == checked_add(c2.shares[asset], supply_tokens, U64_MOD)
                c3      == [c2 EXCEPT !.shares[asset] = shares1,
                                      !.held[user][asset] = Add(@, supply_tokens)]
                total_supplied == checked_add(market.total_supplied, amount, U64_MOD)
                c4      == [c3 EXCEPT !.markets[asset].total_supplied = total_supplied]
                total_supply_tokens ==
                    checked_add(market.total_supply_tokens, supply_tokens, U64_MOD)
                c5      == [c4 EXCEPT !.markets[asset].total_supply_tokens = total_supply_tokens]
            IN  IF acc.err # OK THEN Fail(acc.err, c1, c1.markets)
                ELSE IF vault1 = NONE THEN Fail("TokenError", c1, c1.markets)
                ELSE IF exchange_rate = NONE \/ supply_tokens = NONE
                THEN Fail("MathOverflow", c2, c1.markets)
                ELSE IF shares1 = NONE THEN Fail("TokenError", c2, c1.markets)
                ELSE IF total_supplied = NONE THEN Fail("MathOverflow", c3, c1.markets)
                ELSE IF total_supply_tokens = NONE THEN Fail("MathOverflow", c4, c1.markets)
                ELSE Done(c5, c1.markets)
        priced(acc, exchange_rate) ==
            minted(acc, exchange_rate,
                   as_cast(checked_div(checked_mul(amount, INTEREST_SCALE, U128_MOD),
                                       exchange_rate),
                           U64_MOD))
        accrued(acc) ==
            priced(acc, IF acc.m.total_supply_tokens = ZERO THEN INTEREST_SCALE
                        ELSE calculate_exchange_rate(acc.m.total_supplied,
                                                     acc.m.total_supply_tokens))
    IN  accrued(accrue_interest(c.markets[asset], unix_timestamp))

\* instructions/borrow.rs
borrow_handler(c, user, asset, amount, unix_timestamp) ==
    IF c.markets[asset].paused THEN Fail("MarketPaused", c, c.markets)
    ELSE IF ~Ge(amount, MIN_BORROW_AMOUNT) THEN Fail("InvalidAmount", c, c.markets)
    ELSE
    LET checked(acc, new_total_borrowed, utilization_bps) ==
            LET market == acc.m
                c1     == [c EXCEPT !.markets[asset] = market]
                available_liquidity == c1.vault[asset]
                c2 == [c1 EXCEPT !.vault[asset] = Sub(@, amount)]
                c3 == [c2 EXCEPT !.markets[asset].total_borrowed = new_total_borrowed]
            IN  IF acc.err # OK THEN Fail(acc.err, c1, c1.markets)
                ELSE IF ~Le(amount, available_liquidity)
                THEN Fail("InsufficientLiquidity", c1, c1.markets)
                ELSE IF new_total_borrowed = NONE \/ utilization_bps = -1
                THEN Fail("MathOverflow", c1, c1.markets)
                ELSE IF ~(utilization_bps <= 10000)
                THEN Fail("InvalidUtilizationRate", c1, c1.markets)
                ELSE Done(c3, c1.markets)
        added(acc, new_total_borrowed) ==
            checked(acc, new_total_borrowed,
                    calculate_utilization_rate(new_total_borrowed, acc.m.total_supplied))
        accrued(acc) == added(acc, checked_add(acc.m.total_borrowed, amount, U64_MOD))
    IN  accrued(accrue_interest(c.markets[asset], unix_timestamp))

\* repay that accrues the market but subtracts from the total it read before
repay_handler_stale(c, user, asset, amount, unix_timestamp) ==
    IF ~Gt(amount, ZERO) THEN Fail("InvalidAmount", c, c.markets)
    ELSE
    LET accrued(acc) ==
            LET c1     == [c EXCEPT !.markets[asset] = acc.m]
                vault1 == checked_add(c1.vault[asset], amount, U64_MOD)
                c2     == [c1 EXCEPT !.vault[asset] = vault1]
                total_borrowed == checked_sub(c.markets[asset].total_borrowed, amount)
                c3     == [c2 EXCEPT !.markets[asset].total_borrowed = total_borrowed]
            IN  IF acc.err # OK THEN Fail(acc.err, c1, c1.markets)
                ELSE IF vault1 = NONE THEN Fail("TokenError", c1, c1.markets)
                ELSE IF total_borrowed = NONE THEN Fail("MathOverflow", c2, c1.markets)
                ELSE Done(c3, c1.markets)
    IN  accrued(accrue_interest(c.markets[asset], unix_timestamp))

\* repay without the check of the amount
repay_handler_any_amount(c, user, asset, amount, unix_timestamp) ==
    LET accrued(acc) ==
            LET market == acc.m
                c1     == [c EXCEPT !.markets[asset] = market]
                vault1 == checked_add(c1.vault[asset], amount, U64_MOD)
                c2     == [c1 EXCEPT !.vault[asset] = vault1]
                total_borrowed == checked_sub(market.total_borrowed, amount)
                c3     == [c2 EXCEPT !.markets[asset].total_borrowed = total_borrowed]
            IN  IF acc.err # OK THEN Fail(acc.err, c1, c1.markets)
                ELSE IF vault1 = NONE THEN Fail("TokenError", c1, c1.markets)
                ELSE IF total_borrowed = NONE THEN Fail("MathOverflow", c2, c1.markets)
                ELSE Done(c3, c1.markets)
    IN  accrued(accrue_interest(c.markets[asset], unix_timestamp))

\* instructions/repay.rs
repay_handler(c, user, asset, amount, unix_timestamp) ==
    IF ~Gt(amount, ZERO) THEN Fail("InvalidAmount", c, c.markets)
    ELSE
    LET accrued(acc) ==
            LET market == acc.m
                c1     == [c EXCEPT !.markets[asset] = market]
                vault1 == checked_add(c1.vault[asset], amount, U64_MOD)
                c2     == [c1 EXCEPT !.vault[asset] = vault1]
                total_borrowed == checked_sub(market.total_borrowed, amount)
                c3     == [c2 EXCEPT !.markets[asset].total_borrowed = total_borrowed]
            IN  IF acc.err # OK THEN Fail(acc.err, c1, c1.markets)
                ELSE IF vault1 = NONE THEN Fail("TokenError", c1, c1.markets)
                ELSE IF total_borrowed = NONE THEN Fail("MathOverflow", c2, c1.markets)
                ELSE Done(c3, c1.markets)
    IN  accrued(accrue_interest(c.markets[asset], unix_timestamp))

\* withdraw that leaves the liquidity check to the token program's transfer
withdraw_handler_unchecked(c, user, asset, supply_tokens, unix_timestamp) ==
    IF ~Gt(supply_tokens, ZERO) THEN Fail("InvalidAmount", c, c.markets)
    ELSE
    LET burned(acc, exchange_rate, withdraw_amount) ==
            LET market == acc.m
                c1     == [c EXCEPT !.markets[asset] = market]
                shares1 == checked_sub(c1.held[user][asset], supply_tokens)
                c2      == [c1 EXCEPT !.held[user][asset] = shares1,
                                      !.shares[asset] = Sub(@, supply_tokens)]
                c3      == [c2 EXCEPT !.vault[asset] = Sub(@, withdraw_amount)]
                total_supplied == checked_sub(market.total_supplied, withdraw_amount)
                c4      == [c3 EXCEPT !.markets[asset].total_supplied = total_supplied]
                total_supply_tokens ==
                    checked_sub(market.total_supply_tokens, supply_tokens)
                c5      == [c4 EXCEPT !.markets[asset].total_supply_tokens = total_supply_tokens]
            IN  IF acc.err # OK THEN Fail(acc.err, c1, c1.markets)
                ELSE IF exchange_rate = NONE \/ withdraw_amount = NONE
                THEN Fail("MathOverflow", c1, c1.markets)
                ELSE IF shares1 = NONE THEN Fail("TokenError", c1, c1.markets)
                ELSE IF ~Le(withdraw_amount, c1.vault[asset])
                THEN Fail("TokenError", c2, c1.markets)
                ELSE IF total_supplied = NONE THEN Fail("MathOverflow", c3, c1.markets)
                ELSE IF total_supply_tokens = NONE THEN Fail("MathOverflow", c4, c1.markets)
                ELSE Done(c5, c1.markets)
        priced(acc, exchange_rate) ==
            burned(acc, exchange_rate,
                   as_cast(checked_div(checked_mul(supply_tokens, exchange_rate, U128_MOD),
                                       INTEREST_SCALE),
                           U64_MOD))
        accrued(acc) ==
            priced(acc, calculate_exchange_rate(acc.m.total_supplied,
                                                acc.m.total_supply_tokens))
    IN  accrued(accrue_interest(c.markets[asset], unix_timestamp))

\* instructions/withdraw.rs
withdraw_handler(c, user, asset, supply_tokens, unix_timestamp) ==
    IF ~Gt(supply_tokens, ZERO) THEN Fail("InvalidAmount", c, c.markets)
    ELSE
    LET burned(acc, exchange_rate, withdraw_amount) ==
            LET market == acc.m
                c1     == [c EXCEPT !.markets[asset] = market]
                shares1 == checked_sub(c1.held[user][asset], supply_tokens)
                c2      == [c1 EXCEPT !.held[user][asset] = shares1,
                                      !.shares[asset] = Sub(@, supply_tokens)]
                c3      == [c2 EXCEPT !.vault[asset] = Sub(@, withdraw_amount)]
                total_supplied == checked_sub(market.total_supplied, withdraw_amount)
                c4      == [c3 EXCEPT !.markets[asset].total_supplied = total_supplied]
                total_supply_tokens ==
                    checked_sub(market.total_supply_tokens, supply_tokens)
                c5      == [c4 EXCEPT !.markets[asset].total_supply_tokens = total_supply_tokens]
            IN  IF acc.err # OK THEN Fail(acc.err, c1, c1.markets)
                ELSE IF exchange_rate = NONE \/ withdraw_amount = NONE
                THEN Fail("MathOverflow", c1, c1.markets)
                ELSE IF ~Le(withdraw_amount, c1.vault[asset])
                THEN Fail("InsufficientLiquidity", c1, c1.markets)
                ELSE IF shares1 = NONE THEN Fail("TokenError", c1, c1.markets)
                ELSE IF total_supplied = NONE THEN Fail("MathOverflow", c3, c1.markets)
                ELSE IF total_supply_tokens = NONE THEN Fail("MathOverflow", c4, c1.markets)
                ELSE Done(c5, c1.markets)
        priced(acc, exchange_rate) ==
            burned(acc, exchange_rate,
                   as_cast(checked_div(checked_mul(supply_tokens, exchange_rate, U128_MOD),
                                       INTEREST_SCALE),
                           U64_MOD))
        accrued(acc) ==
            priced(acc, calculate_exchange_rate(acc.m.total_supplied,
                                                acc.m.total_supply_tokens))
    IN  accrued(accrue_interest(c.markets[asset], unix_timestamp))

\* instructions/liquidate.rs, for two different markets
liquidate_handler(c, borrow_asset, collateral_asset, repay_amount, min_collateral_amount, unix_timestamp) ==
    IF ~Gt(repay_amount, ZERO) THEN Fail("InvalidAmount", c, c.markets)
    ELSE
    LET seized(accb, accc, collateral_amount) ==
            LET borrow_market == accb.m
                c1   == [c EXCEPT !.markets[borrow_asset] = borrow_market]
                collateral_market == accc.m
                c2   == [c1 EXCEPT !.markets[collateral_asset] = collateral_market]
                vaultb == checked_add(c2.vault[borrow_asset], repay_amount, U64_MOD)
                c3   == [c2 EXCEPT !.vault[borrow_asset] = vaultb]
                vaultc == checked_sub(c3.vault[collateral_asset], collateral_amount)
                c4   == [c3 EXCEPT !.vault[collateral_asset] = vaultc]
                total_borrowed == checked_sub(borrow_market.total_borrowed, repay_amount)
                c5   == [c4 EXCEPT !.markets[borrow_asset].total_borrowed = total_borrowed]
                total_supplied ==
                    checked_sub(collateral_market.total_supplied, collateral_amount)
                c6   == [c5 EXCEPT !.markets[collateral_asset].total_supplied = total_supplied]
            IN  IF accb.err # OK THEN Fail(accb.err, c1, c1.markets)
                ELSE IF accc.err # OK THEN Fail(accc.err, c2, c2.markets)
                ELSE IF vaultb = NONE THEN Fail("TokenError", c2, c2.markets)
                ELSE IF collateral_amount = NONE THEN Fail("MathOverflow", c3, c2.markets)
                ELSE IF ~Ge(collateral_amount, min_collateral_amount)
                THEN Fail("SlippageExceeded", c3, c2.markets)
                ELSE IF vaultc = NONE THEN Fail("TokenError", c3, c2.markets)
                ELSE IF total_borrowed = NONE THEN Fail("MathOverflow", c4, c2.markets)
                ELSE IF total_supplied = NONE THEN Fail("MathOverflow", c5, c2.markets)
                ELSE Done(c6, c2.markets)
        accrued(accb, accc) ==
            seized(accb, accc,
                   checked_add(repay_amount, calculate_liquidation_bonus(repay_amount),
                               U64_MOD))
    IN  accrued(accrue_interest(c.markets[borrow_asset], unix_timestamp),
                accrue_interest(c.markets[collateral_asset], unix_timestamp))

(***************************************************************************)
(* The state machine                                                       *)
(***************************************************************************)
VARIABLES
    config,   \* the GlobalConfig account
    markets,  \* the Market account of each asset
    vault,    \* the token balance of each market's reserve vault
    shares,   \* the supply of each market's share mint
    held,     \* the share tokens in each wallet's supply account, by asset
    positions,\* the BorrowPosition account of each wallet in each market
    now,      \* Clock::get()?.unix_timestamp
    res,      \* the last call: its arguments and outcome, the accounts before it,
              \* the markets after its accruals, the accounts in memory at its end
    ops       \* the number of calls counted against the bound

vars == <<config, markets, vault, shares, held, positions, now, res, ops>>

\* Bounds of the exploration: the number of instructions that succeed, and the
\* number of them after which a failing instruction is no longer recorded (a
\* failing instruction changes no account, so nothing later depends on it)
MaxOps     == 6
MaxFailOps == 4

Assets == {"A", "B"}
\* the wallets; the instructions of Spec are all alice's
Users  == {"alice", "bob"}
Times  == {1000000000, 1400000000}
LARGE  == Dec(<<1, 500, 0, 0, 0, 0, 0>>)
SupplyAmounts == {Dec(<<99, 999, 999>>), LARGE}
BorrowAmounts == {Dec(<<9, 999, 999>>), LARGE}
RiskConfigs   == {<<7500, 8500>>, <<8000, 7999>>, <<8001, 9000>>, <<7000, 7500>>}

Accounts ==
    [config |-> config, markets |-> markets, vault |-> vault, shares |-> shares,
     held |-> held, positions |-> positions]

\* a runtime that keeps whatever a failing handler wrote and moved
CommitInMemory(before, r) == r.c

\* a runtime that reverts the token transfers of a failing handler but writes
\* its Market accounts back
CommitMarkets(before, r) ==
    IF r.err = OK THEN r.c ELSE [before EXCEPT !.markets = r.c.markets]

\* lib.rs: an instruction returns its handler's Result.  The runtime keeps the
\* accounts written and the tokens moved only when the result is Ok.
Commit(before, r) == IF r.err = OK THEN r.c ELSE before

Call(user, op, asset, other, amount, min, time, r) ==
    [user |-> user, op |-> op, asset |-> asset, other |-> other, amount |-> amount, min |-> min,
     err |-> r.err, time |-> time, before |-> Accounts, accrued |-> r.accrued,
     left |-> r.c]

Store(c, call) ==
    /\ call.err = OK \/ ops < MaxFailOps
    /\ config'  = c.config
    /\ markets' = c.markets
    /\ vault'   = c.vault
    /\ shares'  = c.shares
    /\ held'    = c.held
    /\ positions' = c.positions
    /\ res'     = call
    /\ ops'     = IF call.err = OK THEN ops + 1 ELSE ops
    /\ UNCHANGED now

\* an instruction with the result r of its handler
Run(user, op, asset, other, amount, min, r) ==
    Store(Commit(Accounts, r), Call(user, op, asset, other, amount, min, now, r))

\* initialize has run: the GlobalConfig exists and no market does
InitAccounts ==
    [config  |-> [market_count |-> 0, protocol_fee_bps |-> PROTOCOL_FEE_BPS],
     markets |-> [a \in Assets |-> NoMarket],
     vault   |-> [a \in Assets |-> ZERO],
     shares  |-> [a \in Assets |-> ZERO],
     held    |-> [u \in Users |-> [a \in Assets |-> ZERO]],
     positions |-> [u \in Users |-> [a \in Assets |-> NoPosition]]]

Init ==
    /\ config  = InitAccounts.config
    /\ markets = InitAccounts.markets
    /\ vault   = InitAccounts.vault
    /\ shares  = InitAccounts.shares
    /\ held    = InitAccounts.held
    /\ positions = InitAccounts.positions
    /\ now     = 1000000000
    /\ res     = [user |-> "", op |-> "initialize", asset |-> "", other |-> "", amount |-> ZERO,
                  min |-> ZERO, err |-> OK, time |-> 1000000000,
                  before |-> InitAccounts, accrued |-> InitAccounts.markets,
                  left |-> InitAccounts]
    /\ ops     = 0

\* The clock sysvar advances between instructions
Tick ==
    /\ \E t \in Times : t > now /\ now' = t
    /\ UNCHANGED <<config, markets, vault, shares, held, positions, res, ops>>

\* create_market: the market account is `init` (it must not exist yet, and is
\* written on success); global_config is not declared `mut`, so the handler's
\* change to it is not written back.
\* The call is recorded with ltv_bps as its amount and liquidation_threshold_bps
\* as its min.
CreateMarket ==
    /\ ops < MaxOps
    /\ \E a \in Assets, rc \in RiskConfigs :
        /\ ~markets[a].exists
        /\ LET run(r) == Store([Commit(Accounts, r) EXCEPT !.config = config],
                               Call("alice", "create_market", a, "", Nat2Big(rc[1]),
                                    Nat2Big(rc[2]), now, r))
           IN  run(create_market_handler(Accounts, a, rc[1], rc[2], now))

Supply ==
    /\ ops < MaxOps
    /\ \E a \in Assets, amount \in SupplyAmounts :
        /\ markets[a].exists
        /\ Run("alice", "supply", a, "", amount, ZERO,
               supply_handler(Accounts, "alice", a, amount, now))

Borrow ==
    /\ ops < MaxOps
    /\ \E a \in Assets, amount \in BorrowAmounts :
        /\ markets[a].exists
        /\ Run("alice", "borrow", a, "", amount, ZERO,
               borrow_handler(Accounts, "alice", a, amount, now))

\* the debt of a market as a caller sees it at the current time
DebtNow(a) == accrue_interest(markets[a], now).m.total_borrowed

\* nothing, the least amount, the whole debt, more than the debt
RepayAmounts(debt) == {ZERO, ONE, debt, Add(debt, ONE)}

Repay ==
    /\ ops < MaxOps
    /\ \E a \in Assets :
        /\ markets[a].exists
        /\ \E amount \in RepayAmounts(DebtNow(a)) :
            Run("alice", "repay", a, "", amount, ZERO,
                repay_handler(Accounts, "alice", a, amount, now))

Withdraw ==
    /\ ops < MaxOps
    /\ \E a \in Assets :
        /\ markets[a].exists
        /\ \E supply_tokens \in {ZERO, markets[a].total_supply_tokens} :
            Run("alice", "withdraw", a, "", supply_tokens, ZERO,
                withdraw_handler(Accounts, "alice", a, supply_tokens, now))

Liquidate ==
    /\ ops < MaxOps
    /\ \E a \in Assets, b \in Assets :
        /\ a # b
        /\ markets[a].exists /\ markets[b].exists
        /\ \E repay_amount \in {ZERO, Dec(<<1, 0, 0>>)},
              min_collateral_amount \in {ZERO, Dec(<<1, 60, 0>>)} :
            Run("alice", "liquidate", a, b, repay_amount, min_collateral_amount,
                liquidate_handler(Accounts, a, b, repay_amount, min_collateral_amount, now))

Next == Tick \/ CreateMarket \/ Supply \/ Borrow \/ Repay \/ Withdraw \/ Liquidate

Spec == Init /\ [][Next]_vars

(***************************************************************************)
(* Market::accrue_interest on its own: a market as create_market, supply   *)
(* and borrow leave it at the first timestamp, then accrued at arbitrary   *)
(* timestamps, one of them earlier than the market's.                      *)
(***************************************************************************)
MaxAccruals == 3

AccrueTimes  == {600000000, 1000000000, 1400000000, 1800000000}
AccrueTotals == {<<ZERO, ZERO>>, <<LARGE, ZERO>>, <<LARGE, LARGE>>,
                 <<LARGE, Dec(<<9, 999, 999>>)>>,
                 <<Dec(<<99, 999, 999>>), Dec(<<9, 999, 999>>)>>,
                 <<Dec(<<99, 999, 999>>), Dec(<<99, 999, 999>>)>>,
                 <<U64_MAX, U64_MAX>>}

\* the accounts after create_market, supply and borrow of the given totals
AccrueAccounts(totals) ==
    LET created == Market_initialize(NoMarket, 0, "A", 7500, 8500, 1000000000).m
    IN  [InitAccounts EXCEPT
            !.markets["A"] = [created EXCEPT !.total_supplied = totals[1],
                                             !.total_supply_tokens = totals[1],
                                             !.total_borrowed = totals[2]],
            !.vault["A"]  = Sub(totals[1], totals[2]),
            !.shares["A"] = totals[1],
            !.held["alice"]["A"] = totals[1]]

InitAccrue ==
    \E totals \in AccrueTotals :
        /\ config  = AccrueAccounts(totals).config
        /\ markets = AccrueAccounts(totals).markets
        /\ vault   = AccrueAccounts(totals).vault
        /\ shares  = AccrueAccounts(totals).shares
        /\ held    = AccrueAccounts(totals).held
        /\ positions = AccrueAccounts(totals).positions
        /\ now     = 1000000000
        /\ res     = [user |-> "", op |-> "initialize", asset |-> "", other |-> "", amount |-> ZERO,
                      min |-> ZERO, err |-> OK, time |-> 1000000000,
                      before |-> AccrueAccounts(totals),
                      accrued |-> AccrueAccounts(totals).markets,
                      left |-> AccrueAccounts(totals)]
        /\ ops     = 0

\* market.accrue_interest(t)? as a call of its own: its Result and the accounts
AccrueResult(a, acc) ==
    [err |-> acc.err,
     c |-> [Accounts EXCEPT !.markets[a] = acc.m],
     accrued |-> [markets EXCEPT ![a] = acc.m]]

\* the account is written when the result is Ok
AccrueStore(a, t, r) ==
    /\ markets' = Commit(Accounts, r).markets
    /\ res'     = Call("", "accrue", a, "", ZERO, ZERO, t, r)
    /\ now'     = t
    /\ ops'     = ops + 1
    /\ UNCHANGED <<config, vault, shares, held, positions>>

Accrue ==
    /\ ops < MaxAccruals
    /\ \E a \in Assets, t \in AccrueTimes :
        /\ markets[a].exists
        /\ AccrueStore(a, t, AccrueResult(a, accrue_interest(markets[a], t)))

NextAccrue == Accrue

SpecAccrue == InitAccrue /\ [][NextAccrue]_vars

(***************************************************************************)
(* The instructions at the edges of their domains: after a history of      *)
(* instructions replayed from the initial accounts, a few more supplies,   *)
(* withdrawals and borrows on market A, with the least and the greatest    *)
(* amounts a caller can pass and the amounts that meet the balances.       *)
(***************************************************************************)
MaxBoundaryOps == 2

Step(user, op, asset, other, amount, time) ==
    [user |-> user, op |-> op, asset |-> asset, other |-> other, amount |-> amount,
     time |-> time]

\* lib.rs: the handler an instruction dispatches to (markets are created with
\* ltv 7500 and liquidation threshold 8500, liquidations ask for no minimum)
Instruction(c, s) ==
    CASE s.op = "create_market" -> create_market_handler(c, s.asset, 7500, 8500, s.time)
      [] s.op = "supply"   -> supply_handler(c, s.user, s.asset, s.amount, s.time)
      [] s.op = "borrow"   -> borrow_handler(c, s.user, s.asset, s.amount, s.time)
      [] s.op = "repay"    -> repay_handler(c, s.user, s.asset, s.amount, s.time)
      [] s.op = "withdraw" -> withdraw_handler(c, s.user, s.asset, s.amount, s.time)
      [] s.op = "liquidate" ->
            liquidate_handler(c, s.asset, s.other, s.amount, ZERO, s.time)

\* the accounts after instruction s (create_market does not write global_config)
Committed(c, s) ==
    LET done(r) == IF s.op = "create_market"
                   THEN [Commit(c, r) EXCEPT !.config = c.config]
                   ELSE Commit(c, r)
    IN  done(Instruction(c, s))

RECURSIVE Replay(_, _)
Replay(c, steps) ==
    IF steps = <<>> THEN c ELSE Replay(Committed(c, Head(steps)), Tail(steps))

\* alice supplies to a new market A
Supplied ==
    <<Step("alice", "create_market", "A", "", ZERO, 1000000000),
      Step("alice", "supply", "A", "", LARGE, 1000000000)>>

\* ... and borrows all of it
Lent == Supplied \o <<Step("alice", "borrow", "A", "", LARGE, 1000000000)>>

\* ... and repays the debt with its interest, 400000000 seconds later
Repaid ==
    Lent \o <<Step("alice", "repay", "A", "", Add(LARGE, Nat2Big(21)), 1400000000)>>

\* ... and withdraws all her shares
Emptied == Repaid \o <<Step("alice", "withdraw", "A", "", LARGE, 1400000000)>>

\* alice supplies the least amount to A as collateral and borrows from B; a
\* liquidator repays 1000000 of B and seizes 1050000 of A
Liquidated ==
    <<Step("alice", "create_market", "A", "", ZERO, 1000000000),
      Step("alice", "create_market", "B", "", ZERO, 1000000000),
      Step("alice", "supply", "A", "", MIN_SUPPLY_AMOUNT, 1000000000),
      Step("alice", "supply", "B", "", LARGE, 1000000000),
      Step("alice", "borrow", "B", "", LARGE, 1000000000),
      Step("bob", "liquidate", "B", "A", Dec(<<1, 0, 0>>), 1000000000)>>

\* the histories, each with the time at which the next instruction runs
BoundaryHistories ==
    {<<SubSeq(Supplied, 1, 1), 1000000000>>, <<Supplied, 1000000000>>,
     <<Lent, 1400000000>>, <<Repaid, 1400000000>>, <<Emptied, 1400000000>>,
     <<Liquidated, 1000000000>>, <<Repaid, 1800000000>>}

InitBoundary ==
    \E h \in BoundaryHistories :
        LET start(c) ==
                /\ config  = c.config
                /\ markets = c.markets
                /\ vault   = c.vault
                /\ shares  = c.shares
                /\ held    = c.held
                /\ positions = c.positions
                /\ now     = h[2]
                /\ res     = [user |-> "", op |-> "initialize", asset |-> "", other |-> "",
                              amount |-> ZERO, min |-> ZERO, err |-> OK, time |-> h[2],
                              before |-> c, accrued |-> c.markets, left |-> c]
                /\ ops     = 0
        IN  start(Replay(InitAccounts, h[1]))

\* an instruction s with the result r of its handler; every call is counted
BoundaryRun(s, r) ==
    LET store(c) ==
            /\ config'  = c.config
            /\ markets' = c.markets
            /\ vault'   = c.vault
            /\ shares'  = c.shares
            /\ held'    = c.held
            /\ positions' = c.positions
    IN  /\ ops < MaxBoundaryOps
        /\ store(Commit(Accounts, r))
        /\ res'     = Call(s.user, s.op, s.asset, s.other, s.amount, ZERO, s.time, r)
        /\ ops'     = ops + 1
        /\ UNCHANGED now

\* the least amount, a large one, and the greatest that total_supplied can take
BoundarySupply ==
    /\ markets["A"].exists
    /\ \E amount \in {MIN_SUPPLY_AMOUNT, LARGE, Sub(U64_MAX, MIN_SUPPLY_AMOUNT)} :
            BoundaryRun(Step("bob", "supply", "A", "", amount, now),
                        supply_handler(Accounts, "bob", "A", amount, now))

\* all the shares the wallet holds, one more than exist, the greatest u64
BoundaryWithdraw ==
    /\ markets["A"].exists
    /\ \E user \in Users :
            \E supply_tokens \in {held[user]["A"],
                                   Add(markets["A"].total_supply_tokens, ONE), U64_MAX} :
                BoundaryRun(Step(user, "withdraw", "A", "", supply_tokens, now),
                            withdraw_handler(Accounts, user, "A", supply_tokens, now))

\* the least amount, all that the reserve vault holds, one more than that
BoundaryBorrow ==
    /\ markets["A"].exists
    /\ \E amount \in {MIN_BORROW_AMOUNT, vault["A"], Add(vault["A"], ONE)} :
            BoundaryRun(Step("bob", "borrow", "A", "", amount, now),
                        borrow_handler(Accounts, "bob", "A", amount, now))

NextBoundary == BoundarySupply \/ BoundaryWithdraw \/ BoundaryBorrow

SpecBoundary == InitBoundary /\ [][NextBoundary]_vars

(***************************************************************************)
(* BorrowPosition::calculate_debt on its own: a position of alice in       *)
(* market A with a principal and a snapshot of the borrow index, and the   *)
(* market at an index of its own.                                          *)
(***************************************************************************)
Principals == {ZERO, ONE, Dec(<<1, 0, 0>>), LARGE, U64_MAX}
Snapshots  == {INTEREST_SCALE, Add(INTEREST_SCALE, Nat2Big(14)), Mul(<<2>>, INTEREST_SCALE)}
Indices    == Snapshots \cup {Mul(<<3>>, INTEREST_SCALE)}

\* the accounts with the position and the market's index
DebtAccounts(principal, snapshot, index) ==
    [InitAccounts EXCEPT
        !.markets["A"] =
            [Market_initialize(NoMarket, 0, "A", 7500, 8500, 1000000000).m
                EXCEPT !.cumulative_borrow_rate = index],
        !.positions["alice"]["A"] =
            BorrowPosition_initialize(NoPosition, principal, snapshot, 1000000000)]

InitDebt ==
    \E principal \in Principals, snapshot \in Snapshots, index \in Indices :
        LET start(c) ==
                /\ config  = c.config
                /\ markets = c.markets
                /\ vault   = c.vault
                /\ shares  = c.shares
                /\ held    = c.held
                /\ positions = c.positions
        IN  /\ start(DebtAccounts(principal, snapshot, index))
            /\ now = 1000000000
            /\ res = [op |-> "initialize", err |-> OK]
            /\ ops = 0

\* position.calculate_debt(&market): the Result, NONE for an error
Debt ==
    /\ ops = 0
    /\ res' = [op |-> "calculate_debt", err |-> OK,
               out |-> calculate_debt(positions["alice"]["A"], markets["A"])]
    /\ ops' = 1
    /\ UNCHANGED <<config, markets, vault, shares, held, positions, now>>

NextDebt == Debt

SpecDebt == InitDebt /\ [][NextDebt]_vars

(***************************************************************************)
(* calculate_health_factor on its own                                      *)
(***************************************************************************)
CollateralValues == {ZERO, Dec(<<1, 0, 0>>), Dec(<<1, 250, 0>>), Dec(<<8, 500, 0>>),
                     Dec(<<10, 0, 0>>), U64_MAX}
Thresholds       == {8000, 8500, 9000}
BorrowedValues   == {ZERO, ONE, Dec(<<1, 0, 0>>), Dec(<<1, 62, 500>>), Dec(<<10, 0, 0>>),
                     U64_MAX}

InitHealth ==
    /\ config  = InitAccounts.config
    /\ markets = InitAccounts.markets
    /\ vault   = InitAccounts.vault
    /\ shares  = InitAccounts.shares
    /\ held    = InitAccounts.held
    /\ positions = InitAccounts.positions
    /\ now = 1000000000
    /\ res = [op |-> "initialize", err |-> OK]
    /\ ops = 0

\* calculate_health_factor(collateral_value, liquidation_threshold_bps,
\* borrowed_value): the arguments and the Result, NONE for an error
HealthFactor ==
    /\ \E collateral_value \in CollateralValues,
          liquidation_threshold_bps \in Thresholds,
          borrowed_value \in BorrowedValues :
            res' = [op |-> "calculate_health_factor", err |-> OK,
                    collateral_value |-> collateral_value,
                    liquidation_threshold_bps |-> liquidation_threshold_bps,
                    borrowed_value |-> borrowed_value,
                    out |-> calculate_health_factor(collateral_value,
                                                    liquidation_threshold_bps,
                                                    borrowed_value)]
    /\ UNCHANGED <<config, markets, vault, shares, held, positions, now, ops>>

NextHealth == HealthFactor

SpecHealth == InitHealth /\ [][NextHealth]_vars

(***************************************************************************)
(* calculate_utilization_rate and calculate_borrow_rate on their own: the  *)
(* utilization of totals up to u64::MAX, with and without debt above the   *)
(* supply, and the borrow rate at every utilization of 0..=10000 bps       *)
(***************************************************************************)
UtilizationTotals == {ZERO, ONE, Dec(<<7, 999>>), Dec(<<10, 0>>), Dec(<<99, 999, 999>>),
                      LARGE, U64_MAX}

InitRates == InitHealth

\* calculate_utilization_rate(total_borrowed, total_supplied): the arguments and
\* the Result, -1 for an error
UtilizationRate ==
    /\ ops = 0
    /\ \E total_borrowed \in UtilizationTotals, total_supplied \in UtilizationTotals :
            LET result(out) ==
                    res' = [op |-> "calculate_utilization_rate",
                            err |-> IF out = -1 THEN "MathOverflow" ELSE OK,
                            total_borrowed |-> total_borrowed,
                            total_supplied |-> total_supplied,
                            out |-> out]
            IN  result(calculate_utilization_rate(total_borrowed, total_supplied))
    /\ ops' = 1
    /\ UNCHANGED <<config, markets, vault, shares, held, positions, now>>

\* calculate_borrow_rate(utilization_bps): the argument and the Result, NONE for
\* an error
BorrowRate ==
    /\ ops = 0
    /\ \E utilization_bps \in 0..BPS_SCALE :
            LET result(out) ==
                    res' = [op |-> "calculate_borrow_rate",
                            err |-> IF out = NONE THEN "MathOverflow" ELSE OK,
                            utilization_bps |-> utilization_bps,
                            out |-> out]
            IN  result(calculate_borrow_rate(utilization_bps))
    /\ ops' = 1
    /\ UNCHANGED <<config, markets, vault, shares, held, positions, now>>

NextRates == UtilizationRate \/ BorrowRate

SpecRates == InitRates /\ [][NextRates]_vars

(***************************************************************************)
(* The claims                                                              *)
(***************************************************************************)
TouchedOps == {"supply", "borrow", "repay", "withdraw", "liquidate"}

\* the markets a call works on
Touched(call) == IF call.op = "liquidate" THEN {call.asset, call.other} ELSE {call.asset}

\* C1: in every reachable state of every market, after any sequence of
\* create_market, supply, borrow, repay, withdraw and liquidate at
\* non-decreasing timestamps, total_supplied >= total_borrowed.
C1_SuppliedCoversBorrowed ==
    \A a \in Assets :
        markets[a].exists => Ge(markets[a].total_supplied, markets[a].total_borrowed)

\* the collateral a liquidation of repay_amount seizes
Seized(repay_amount) == Add(repay_amount, calculate_liquidation_bonus(repay_amount))

\* the underlying a withdrawal of supply_tokens pays at the totals of market m
Withdrawn(m, supply_tokens) ==
    Div(Mul(supply_tokens, calculate_exchange_rate(m.total_supplied, m.total_supply_tokens)),
        INTEREST_SCALE)

\* C2: every successful supply, borrow, repay, withdraw or liquidate at time now
\* accrues every market it touches first: each touched market then has
\* last_accrual_timestamp = now, and the totals the call leaves are the totals
\* after that accrual plus or minus the call's own delta.
C2_AccrueFirst ==
    (res.err = OK /\ res.op \in TouchedOps) =>
        LET a  == res.asset
            m  == markets[a]
            am == res.accrued[a]
        IN  /\ \A x \in Touched(res) :
                    /\ res.accrued[x].last_accrual_timestamp = res.time
                    /\ markets[x].last_accrual_timestamp = res.time
                    /\ markets[x].cumulative_borrow_rate = res.accrued[x].cumulative_borrow_rate
                    /\ markets[x].cumulative_supply_rate = res.accrued[x].cumulative_supply_rate
            /\ res.op = "supply" =>
                    /\ m.total_supplied = Add(am.total_supplied, res.amount)
                    /\ m.total_borrowed = am.total_borrowed
            /\ res.op = "borrow" =>
                    /\ m.total_borrowed = Add(am.total_borrowed, res.amount)
                    /\ m.total_supplied = am.total_supplied
                    /\ calculate_utilization_rate(m.total_borrowed, am.total_supplied) <= 10000
            /\ res.op = "repay" =>
                    /\ Add(m.total_borrowed, res.amount) = am.total_borrowed
                    /\ m.total_supplied = am.total_supplied
            /\ res.op = "withdraw" =>
                    /\ Add(m.total_supplied, Withdrawn(am, res.amount)) = am.total_supplied
                    /\ m.total_borrowed = am.total_borrowed
            /\ res.op = "liquidate" =>
                    /\ Add(m.total_borrowed, res.amount) = am.total_borrowed
                    /\ m.total_supplied = am.total_supplied
                    /\ Add(markets[res.other].total_supplied, Seized(res.amount))
                           = res.accrued[res.other].total_supplied
                    /\ markets[res.other].total_borrowed = res.accrued[res.other].total_borrowed

\* a liquidation succeeded after interest had changed the debt market's totals
C2_Witness ==
    /\ res.op = "liquidate" /\ res.err = OK
    /\ res.accrued[res.asset].total_borrowed # res.before.markets[res.asset].total_borrowed
    /\ res.accrued[res.other].last_accrual_timestamp
           # res.before.markets[res.other].last_accrual_timestamp

HasBalance(m) == m.total_supplied # ZERO \/ m.total_borrowed # ZERO

\* C5: accrual is idempotent in time: accruing a market again at the timestamp
\* it was last accrued at leaves every field exactly as the first call left it.
C5_AccrueIdempotent ==
    (res.op = "accrue"
        /\ res.before.markets[res.asset].last_accrual_timestamp = res.time) =>
            /\ res.err = OK
            /\ markets[res.asset] = res.before.markets[res.asset]

\* a market whose borrow index has grown, with debt, was accrued a second time
\* at the same timestamp
C5_Witness ==
    /\ res.op = "accrue"
    /\ res.before.markets[res.asset].last_accrual_timestamp = res.time
    /\ Gt(markets[res.asset].cumulative_borrow_rate, INTEREST_SCALE)
    /\ markets[res.asset].total_borrowed # ZERO

\* C6: clock regression is rejected: for a market with a balance, accrual at a
\* timestamp earlier than last_accrual_timestamp returns an error and changes
\* nothing.
C6_RegressionRejected ==
    (res.op = "accrue"
        /\ HasBalance(res.before.markets[res.asset])
        /\ res.time < res.before.markets[res.asset].last_accrual_timestamp) =>
            /\ res.err # OK
            /\ markets[res.asset] = res.before.markets[res.asset]

\* |a - b|
Dist(a, b) == IF Ge(a, b) THEN Sub(a, b) ELSE Sub(b, a)

\* C7: for a market with a balance, accrual over elapsed >= 1 seconds sets
\* new_index = floor(old_index * (SCALE + borrow_rate * elapsed) / SCALE), which
\* strictly increases cumulative_borrow_rate; the supply index is updated the
\* same way with the supply rate.
C7_IndexFollowsRate ==
    (res.op = "accrue" /\ res.err = OK
        /\ HasBalance(res.before.markets[res.asset])
        /\ res.time > res.before.markets[res.asset].last_accrual_timestamp) =>
            LET old     == res.before.markets[res.asset]
                new     == markets[res.asset]
                elapsed == Nat2Big(res.time - old.last_accrual_timestamp)
                util    == calculate_utilization_rate(old.total_borrowed, old.total_supplied)
                borrow_rate == calculate_borrow_rate(util)
                supply_rate == calculate_supply_rate(borrow_rate, util)
            IN  /\ new.cumulative_borrow_rate
                       = Div(Mul(old.cumulative_borrow_rate,
                                 Add(INTEREST_SCALE, Mul(borrow_rate, elapsed))),
                             INTEREST_SCALE)
                /\ Gt(new.cumulative_borrow_rate, old.cumulative_borrow_rate)
                /\ new.cumulative_supply_rate
                       = Div(Mul(old.cumulative_supply_rate,
                                 Add(INTEREST_SCALE, Mul(supply_rate, elapsed))),
                             INTEREST_SCALE)

\* C8: accrual composes over time.  Each accrual scales total_borrowed by the
\* interest factor of its own period, new_total / old_total = new_index /
\* old_index up to rounding; and accruing t0 -> t1 -> t2 leaves a total_borrowed
\* that differs from the one of a single accrual t0 -> t2 only by truncation
\* and the second-order term.
C8_AccrualComposes ==
    (res.op = "accrue" /\ res.err = OK
        /\ HasBalance(res.before.markets[res.asset])
        /\ res.time > res.before.markets[res.asset].last_accrual_timestamp) =>
            LET old == res.before.markets[res.asset]
                new == markets[res.asset]
            IN  /\ Le(Dist(Mul(new.total_borrowed, old.cumulative_borrow_rate),
                           Mul(old.total_borrowed, new.cumulative_borrow_rate)),
                      Mul(<<2>>, Add(old.total_borrowed, old.cumulative_borrow_rate)))
                /\ \A t \in AccrueTimes :
                       t > res.time =>
                           LET close(two, one, interest) ==
                                   Le(Mul(Dist(two, one), old.total_borrowed),
                                      Add(Mul(<<4>>, old.total_borrowed),
                                          Mul(interest, interest)))
                               both(two, one) ==
                                   close(two, one, Sub(one, old.total_borrowed))
                           IN  both(accrue_interest(new, t).m.total_borrowed,
                                    accrue_interest(old, t).m.total_borrowed)

\* C9: across any sequence of operations on a market, cumulative_borrow_rate
\* and cumulative_supply_rate never decrease from one state to the next, and
\* both are >= INTEREST_SCALE, their value at creation, in every reachable state.
C9_IndicesMonotone ==
    /\ [](\A a \in Assets :
            markets[a].exists =>
                /\ Ge(markets[a].cumulative_borrow_rate, INTEREST_SCALE)
                /\ Ge(markets[a].cumulative_supply_rate, INTEREST_SCALE))
    /\ [][\A a \in Assets :
            markets[a].exists =>
                /\ markets'[a].exists
                /\ Ge(markets'[a].cumulative_borrow_rate, markets[a].cumulative_borrow_rate)
                /\ Ge(markets'[a].cumulative_supply_rate, markets[a].cumulative_supply_rate)]_vars

\* an instruction has accrued interest that raised both indices of a market
C9_Witness ==
    /\ res.op \in TouchedOps /\ res.err = OK
    /\ Gt(markets[res.asset].cumulative_borrow_rate,
          res.before.markets[res.asset].cumulative_borrow_rate)
    /\ Gt(markets[res.asset].cumulative_supply_rate,
          res.before.markets[res.asset].cumulative_supply_rate)

\* C10: in every reachable state of every market, total_supply_tokens = 0
\* implies total_supplied = 0.
C10_NoSharesNoSupply ==
    \A a \in Assets :
        (markets[a].exists /\ markets[a].total_supply_tokens = ZERO) =>
            markets[a].total_supplied = ZERO

\* the share exchange rate of a market, calculate_exchange_rate on its totals
ExchangeRate(m) == calculate_exchange_rate(m.total_supplied, m.total_supply_tokens)

\* C11: with no supply, withdraw or liquidate in between, the share exchange
\* rate of a market never decreases over successive accruals at increasing
\* timestamps.
C11_ExchangeRateMonotone ==
    [][(res'.op = "accrue" /\ res'.err = OK /\ now' > now) =>
            Ge(ExchangeRate(markets'[res'.asset]), ExchangeRate(markets[res'.asset]))]_vars

\* C12: minting and burning shares never lowers the exchange rate: the rate
\* right after a successful supply or withdraw is >= the rate right before it,
\* when the market was already accrued at the call's timestamp (so that no
\* interest accrues), the withdraw that burns the last shares included.
C12_MintBurnKeepsRate ==
    (res.op \in {"supply", "withdraw"} /\ res.err = OK
        /\ res.before.markets[res.asset].last_accrual_timestamp = res.time) =>
            Ge(ExchangeRate(markets[res.asset]), ExchangeRate(res.before.markets[res.asset]))

\* C13: supply/withdraw round trip: supplying amount and then, at the same
\* timestamp and with nothing in between, withdrawing exactly the shares just
\* minted pays out w with amount - 1 <= w <= amount.
C13_RoundTrip ==
    [][(/\ res.op = "supply" /\ res.err = OK
        /\ res'.op = "withdraw" /\ res'.err = OK
        /\ res'.user = res.user /\ res'.asset = res.asset /\ res'.time = res.time
        /\ res'.amount = Sub(markets[res.asset].total_supply_tokens,
                             res.accrued[res.asset].total_supply_tokens)) =>
            /\ Le(Sub(vault[res.asset], vault'[res.asset]), res.amount)
            /\ Le(res.amount, Add(Sub(vault[res.asset], vault'[res.asset]), ONE))]_vars

\* C14: a successful supply of amount mints floor(amount * SCALE / exchange_rate)
\* shares, exchange_rate being floor(total_supplied * SCALE / total_supply_tokens)
\* on the totals after the accrual (SCALE when no shares exist); it adds exactly
\* amount to total_supplied and exactly the minted shares to total_supply_tokens
\* and leaves total_borrowed unchanged.
C14_SupplyMints ==
    (res.op = "supply" /\ res.err = OK) =>
        LET old == res.accrued[res.asset]
            new == markets[res.asset]
        IN  /\ ExchangeRate(old) # ZERO
            /\ new.total_supplied = Add(old.total_supplied, res.amount)
            /\ new.total_supply_tokens
                   = Add(old.total_supply_tokens,
                         Div(Mul(res.amount, INTEREST_SCALE), ExchangeRate(old)))
            /\ new.total_borrowed = old.total_borrowed
            /\ held[res.user][res.asset]
                   = Add(res.before.held[res.user][res.asset],
                         Div(Mul(res.amount, INTEREST_SCALE), ExchangeRate(old)))

C16_BorrowWithinLiquidity ==
    (res.op = "borrow" /\ Ge(res.amount, MIN_BORROW_AMOUNT)) =>
        LET old == res.accrued[res.asset]
            new == markets[res.asset]
        IN  /\ Gt(Add(old.total_borrowed, res.amount), old.total_supplied) =>
                    /\ res.err \in {"InsufficientLiquidity", "InvalidUtilizationRate"}
                    /\ Accounts = res.before
            /\ res.err = OK =>
                    /\ new.total_borrowed = Add(old.total_borrowed, res.amount)
                    /\ new.total_supplied = old.total_supplied
                    /\ new.total_supply_tokens = old.total_supply_tokens
                    /\ Le(new.total_borrowed, new.total_supplied)

\* C17: borrowing is collateral-gated: a borrow succeeds only if the borrower's
\* debt is then at most ltv_bps/10000 of the borrower's collateral, and a wallet
\* that has supplied nothing cannot complete a borrow.  The program keeps no
\* debt per wallet and reads no price, so the gate is stated by what it implies
\* at equal prices: the borrower holds shares of some market, and the amount of
\* this borrow alone is within ltv_bps/10000 of their underlying value.
C17_BorrowNeedsCollateral ==
    (res.op = "borrow" /\ res.err = OK) =>
        \E x \in Assets :
            /\ res.before.held[res.user][x] # ZERO
            /\ Le(Mul(res.amount, Nat2Big(BPS_SCALE)),
                  Mul(Withdrawn(res.accrued[x], res.before.held[res.user][x]),
                      Nat2Big(res.accrued[x].ltv_bps)))

\* the debt of a position at the index of market m, nothing for no position
RealizedDebt(position, m) ==
    IF position.exists THEN calculate_debt(position, m) ELSE ZERO

\* C19: every change to a user's debt re-bases the position: after a successful
\* borrow or repay by a user in a market, the user's BorrowPosition exists, its
\* cumulative_borrow_rate_snapshot is the market's current
\* cumulative_borrow_rate, and its borrowed_amount is the debt realized at that
\* index plus the amount borrowed, or minus the amount repaid.
C19_PositionRebased ==
    (res.op \in {"borrow", "repay"} /\ res.err = OK) =>
        LET position == positions[res.user][res.asset]
            realized == RealizedDebt(res.before.positions[res.user][res.asset],
                                     markets[res.asset])
        IN  /\ position.exists
            /\ position.cumulative_borrow_rate_snapshot
                   = markets[res.asset].cumulative_borrow_rate
            /\ res.op = "borrow" => position.borrowed_amount = Add(realized, res.amount)
            /\ res.op = "repay" => Add(position.borrowed_amount, res.amount) = realized

\* C18: position debt scaling: calculate_debt returns
\* floor(principal * market.cumulative_borrow_rate / snapshot) for every
\* principal and every pair of indices; hence it is >= principal whenever the
\* market's index is >= the snapshot, and a principal of 1000000 with snapshot
\* SCALE owes exactly 2000000 at the index 2 * SCALE.
C18_DebtScales ==
    res.op = "calculate_debt" =>
        LET position == positions["alice"]["A"]
            index    == markets["A"].cumulative_borrow_rate
        IN  /\ res.out = Div(Mul(position.borrowed_amount, index),
                             position.cumulative_borrow_rate_snapshot)
            /\ Ge(index, position.cumulative_borrow_rate_snapshot) =>
                    Ge(res.out, position.borrowed_amount)
            /\ (/\ position.borrowed_amount = Dec(<<1, 0, 0>>)
                /\ position.cumulative_borrow_rate_snapshot = INTEREST_SCALE
                /\ index = Mul(<<2>>, INTEREST_SCALE)) => res.out = Dec(<<2, 0, 0>>)

\* C20: calculate_health_factor returns u16::MAX when borrowed_value = 0; for
\* borrowed_value > 0 it returns a value below 10000 if and only if
\* collateral_value * liquidation_threshold_bps / 10000 < borrowed_value, so a
\* position whose risk-adjusted collateral covers its debt is never reported
\* below 10000, however large the collateral.
C20_HealthFactorDecides ==
    res.op = "calculate_health_factor" =>
        /\ res.out # NONE
        /\ res.borrowed_value = ZERO => res.out = Sub(U16_MOD, ONE)
        /\ res.borrowed_value # ZERO =>
                (Lt(res.out, Nat2Big(BPS_SCALE))
                    <=> Lt(Mul(res.collateral_value, Nat2Big(res.liquidation_threshold_bps)),
                           Mul(res.borrowed_value, Nat2Big(BPS_SCALE))))

\* the value of a wallet's share tokens of every market, each at its market's
\* exchange rate and at the 1:1 prices liquidate assumes
CollateralValue(ms, wallet) ==
    Add(Withdrawn(ms["A"], wallet["A"]), Withdrawn(ms["B"], wallet["B"]))

\* the health factor of the one borrower of a debt market: the wallet's
\* collateral under the collateral market's threshold against the market's debt
BorrowerHealth(ms, wallet, borrow_asset, collateral_asset) ==
    calculate_health_factor(CollateralValue(ms, wallet),
                            ms[collateral_asset].liquidation_threshold_bps,
                            ms[borrow_asset].total_borrowed)

\* C21: liquidate succeeds only against a position whose health factor is below
\* 10000 bps: when the health factor after accrual is 10000 or more, a
\* liquidation of a positive amount fails with LiquidationNotNeeded and leaves
\* both markets as they were.
C21_LiquidateNeedsUnhealthy ==
    (/\ res.op = "liquidate" /\ Gt(res.amount, ZERO)
     /\ res.accrued[res.asset].last_accrual_timestamp = res.time
     /\ res.accrued[res.other].last_accrual_timestamp = res.time
     /\ Ge(BorrowerHealth(res.accrued, res.before.held["alice"], res.asset, res.other),
           Nat2Big(10000)))
        => /\ res.err = "LiquidationNotNeeded"
           /\ markets[res.asset] = res.before.markets[res.asset]
           /\ markets[res.other] = res.before.markets[res.other]

\* repay_amount + floor(repay_amount * LIQUIDATION_BONUS_BPS / 10000)
WithBonus(repay_amount) ==
    Add(repay_amount,
        Div(Mul(repay_amount, Nat2Big(LIQUIDATION_BONUS_BPS)), Nat2Big(BPS_SCALE)))

\* a liquidation left the debt market's total_borrowed and the collateral
\* market's total_supplied as they were before the call
LiquidateLeftTotals ==
    /\ markets[res.asset].total_borrowed = res.before.markets[res.asset].total_borrowed
    /\ markets[res.other].total_supplied = res.before.markets[res.other].total_supplied

C24_InvalidRiskRejected ==
    res.op = "create_market" =>
        LET ltv_bps == Big2Nat(res.amount)
            liquidation_threshold_bps == Big2Nat(res.min)
        IN  (\/ liquidation_threshold_bps <= ltv_bps
             \/ ltv_bps > MAX_LTV_BPS
             \/ liquidation_threshold_bps < MIN_LIQUIDATION_THRESHOLD_BPS)
                => /\ res.err # OK
                   /\ markets[res.asset] = NoMarket
                   /\ markets = res.before.markets
                   /\ config.market_count = res.before.config.market_count
                   /\ (ltv_bps = 8000 /\ liquidation_threshold_bps = 7999)
                          => res.err = "LiquidationThresholdTooLow"
                   /\ (ltv_bps = 8001 /\ liquidation_threshold_bps > ltv_bps)
                          => res.err = "InvalidLtvRatio"

\* a create_market with ltv 8001 under threshold 9000 was rejected while the
\* other market existed and held a supply
C24_Witness ==
    /\ res.op = "create_market" /\ res.err = "InvalidLtvRatio"
    /\ res.amount = Nat2Big(8001) /\ res.min = Nat2Big(9000)
    /\ \E a \in Assets : markets[a].exists /\ Gt(markets[a].total_supplied, ZERO)

\* the risk parameters of every existing market are within their bounds
RiskBounds ==
    \A a \in Assets :
        markets[a].exists =>
            /\ markets[a].liquidation_threshold_bps > markets[a].ltv_bps
            /\ markets[a].ltv_bps <= MAX_LTV_BPS
            /\ markets[a].liquidation_threshold_bps >= MIN_LIQUIDATION_THRESHOLD_BPS

\* a step leaves the identity and the risk parameters of every existing market
IdentityKept ==
    \A a \in Assets :
        markets[a].exists =>
            /\ markets'[a].exists
            /\ markets'[a].ltv_bps = markets[a].ltv_bps
            /\ markets'[a].liquidation_threshold_bps = markets[a].liquidation_threshold_bps
            /\ markets'[a].market_id = markets[a].market_id
            /\ markets'[a].asset_mint = markets[a].asset_mint
            /\ markets'[a].supply_mint = markets[a].supply_mint

\* C25: every existing market has liquidation_threshold_bps > ltv_bps,
\* ltv_bps <= 8000 and liquidation_threshold_bps >= 8000, and no instruction
\* after its creation changes its ltv_bps, liquidation_threshold_bps, market_id,
\* asset_mint or supply_mint.
C25_RiskParametersFixed == [](RiskBounds) /\ [][IdentityKept]_vars

\* both markets exist, and the last instruction, a liquidation between them or
\* a withdrawal, rewrote a market that had been supplied to and borrowed from
C25_Witness ==
    /\ \A a \in Assets : markets[a].exists
    /\ res.op \in {"liquidate", "withdraw"} /\ res.err = OK
    /\ markets[res.asset] # res.before.markets[res.asset]
    /\ Gt(markets[res.asset].total_borrowed, ZERO)

\* C26: calculate_utilization_rate(borrowed, supplied) returns 0 without error
\* when supplied = 0, and for every borrowed <= supplied with supplied > 0 it
\* returns floor(borrowed * 10000 / supplied), which is at most 10000.
C26_UtilizationExact ==
    res.op = "calculate_utilization_rate" =>
        /\ res.total_supplied = ZERO => res.err = OK /\ res.out = 0
        /\ (Gt(res.total_supplied, ZERO) /\ Le(res.total_borrowed, res.total_supplied))
               => /\ res.err = OK
                  /\ Nat2Big(res.out) = Div(Mul(res.total_borrowed, Nat2Big(10000)),
                                            res.total_supplied)
                  /\ res.out <= 10000

\* the utilization of a debt of u64::MAX against a supply of u64::MAX was
\* computed, and is 10000
C26_Witness ==
    /\ res.op = "calculate_utilization_rate"
    /\ res.total_borrowed = U64_MAX /\ res.total_supplied = U64_MAX
    /\ res.out = 10000

\* utilizations on both branches of the curve, at its ends and around the kink
RateSamples == {0, 1, 4000, 7999, 8000, 8001, 8002, 9000, 9999, 10000}

\* the two branch formulas of the curve at the kink, in exact arithmetic
LowerBranchAtKink ==
    Add(BASE_RATE_PER_SECOND,
        Div(Mul(SLOPE_1_PER_SECOND, Nat2Big(8000)), Nat2Big(8000)))

UpperBranchAtKink ==
    Add(Add(BASE_RATE_PER_SECOND, SLOPE_1_PER_SECOND),
        Div(Mul(SLOPE_2_PER_SECOND,
                Div(Mul(Nat2Big(8000 - 8000), INTEREST_SCALE), Nat2Big(10000 - 8000))),
            INTEREST_SCALE))

\* C27: the borrow-rate curve is non-decreasing and continuous at the kink: for
\* all u1 <= u2 in 0..10000, calculate_borrow_rate(u1) <= calculate_borrow_rate(u2)
\* (checked for every u against u + 1 and against the sampled utilizations); at
\* u = 8000 the rate is BASE_RATE + SLOPE1 by both branch formulas, and the rates
\* at 7999, 8000 and 8001 differ by one step of the adjoining slope, SLOPE1 / 8000
\* below and SLOPE2 / 2000 above, up to the rounding of the integer division.
C27_BorrowRateCurve ==
    res.op = "calculate_borrow_rate" =>
        LET u == res.utilization_bps
        IN  /\ res.err = OK
            /\ u < 10000 => Le(res.out, calculate_borrow_rate(u + 1))
            /\ \A v \in RateSamples :
                    /\ u <= v => Le(res.out, calculate_borrow_rate(v))
                    /\ v <= u => Le(calculate_borrow_rate(v), res.out)
            /\ u = 8000 =>
                    /\ res.out = Add(BASE_RATE_PER_SECOND, SLOPE_1_PER_SECOND)
                    /\ res.out = LowerBranchAtKink
                    /\ res.out = UpperBranchAtKink
                    /\ Le(Dist(Sub(res.out, calculate_borrow_rate(7999)),
                               Div(SLOPE_1_PER_SECOND, Nat2Big(8000))), ONE)
                    /\ Le(Dist(Sub(calculate_borrow_rate(8001), res.out),
                               Div(SLOPE_2_PER_SECOND, Nat2Big(2000))), ONE)

\* the rate one basis point above the kink was computed: BASE_RATE + SLOPE1 and
\* one step of SLOPE2
C27_Witness ==
    /\ res.op = "calculate_borrow_rate" /\ res.utilization_bps = 8001
    /\ res.out = Dec(<<3, 821, 29, 930>>)

\* C28: idle capital earns nothing: whatever the earlier history of a market,
\* when its total_borrowed is 0 and its total_supplied is positive, the accrual
\* of an instruction, over any elapsed time, leaves total_supplied and
\* cumulative_supply_rate unchanged.
C28_IdleEarnsNothing ==
    (/\ res.op \in {"supply", "borrow", "withdraw"}
     /\ res.before.markets[res.asset].total_borrowed = ZERO
     /\ Gt(res.before.markets[res.asset].total_supplied, ZERO)
     /\ res.accrued[res.asset].last_accrual_timestamp = res.time)
        => /\ res.accrued[res.asset].total_supplied
                  = res.before.markets[res.asset].total_supplied
           /\ res.accrued[res.asset].cumulative_supply_rate
                  = res.before.markets[res.asset].cumulative_supply_rate

\* C29: no silent wrap or truncation: an arithmetic step whose exact result
\* does not fit the type it is stored in fails with the overflow error and never
\* stores a wrapped or truncated value.  For accrue_interest over a positive
\* elapsed time on a market with a balance: when it returns Ok, the totals it
\* stores are the exact products of the old totals and the new indices over
\* SCALE, and when such a product is 2^64 or more it returns MathOverflow.
C29_NoSilentWrap ==
    (/\ res.op = "accrue"
     /\ HasBalance(res.before.markets[res.asset])
     /\ res.time > res.before.markets[res.asset].last_accrual_timestamp)
        => LET old == res.before.markets[res.asset]
               new == res.left.markets[res.asset]
               exact_borrowed ==
                   Div(Mul(old.total_borrowed, new.cumulative_borrow_rate), INTEREST_SCALE)
               exact_supplied ==
                   Div(Mul(old.total_supplied, new.cumulative_supply_rate), INTEREST_SCALE)
           IN  IF res.err = OK
               THEN /\ markets[res.asset].total_borrowed = exact_borrowed
                    /\ markets[res.asset].total_supplied = exact_supplied
               ELSE res.err = "MathOverflow" /\ markets = res.before.markets

\* the amount of the last call is under the floor of its instruction
BelowFloor ==
    \/ res.op = "supply" /\ Lt(res.amount, MIN_SUPPLY_AMOUNT)
    \/ res.op = "borrow" /\ Lt(res.amount, MIN_BORROW_AMOUNT)
    \/ res.op \in {"repay", "withdraw", "liquidate"} /\ res.amount = ZERO

\* C31: amount floors are enforced before any effect: a supply of less than
\* MIN_SUPPLY_AMOUNT, a borrow of less than MIN_BORROW_AMOUNT, and a repay,
\* withdraw or liquidate of a zero amount fail with InvalidAmount, and every
\* market is exactly as before, in the accounts and in the handler's memory: it
\* was not even accrued and keeps its last_accrual_timestamp.
C31_FloorsFirst ==
    BelowFloor =>
        /\ res.err = "InvalidAmount"
        /\ markets = res.before.markets
        /\ res.accrued = res.before.markets
        /\ res.left = res.before

\* a repay of nothing was rejected at a time later than the last accrual of a
\* market that has debt, and the market kept its last_accrual_timestamp
C31_Witness ==
    /\ res.op = "repay" /\ BelowFloor /\ res.err = "InvalidAmount"
    /\ Gt(markets[res.asset].total_borrowed, ZERO)
    /\ res.time > markets[res.asset].last_accrual_timestamp
    /\ markets[res.asset].last_accrual_timestamp
           = res.before.markets[res.asset].last_accrual_timestamp

\* the markets that create_market has created
Created == {a \in Assets : markets[a].exists}

\* C32: the registry counts markets exactly: in every state
\* GlobalConfig.market_count is the number of markets created and is at most
\* MAX_MARKETS; the k-th market created has market_id k - 1, so the market ids
\* are pairwise distinct; and no instruction other than create_market changes
\* a field of GlobalConfig.
C32_RegistryCounts ==
    /\ config.market_count = Cardinality(Created)
    /\ config.market_count <= MAX_MARKETS
    /\ \A a \in Created, b \in Created : a # b => markets[a].market_id # markets[b].market_id
    /\ (res.op = "create_market" /\ res.err = OK)
           => markets[res.asset].market_id = Cardinality(Created) - 1
    /\ res.op # "create_market" => config = res.before.config

\* C33: lenders are paid only out of borrower interest: in the accrual of every
\* call on a market with total_borrowed <= total_supplied, the increase of
\* total_supplied is at most the increase of total_borrowed.
C33_SupplyGrowthBacked ==
    (/\ res.op \in {"supply", "borrow", "withdraw"}
     /\ res.accrued[res.asset].last_accrual_timestamp = res.time
     /\ Le(res.before.markets[res.asset].total_borrowed,
           res.before.markets[res.asset].total_supplied))
        => Le(Add(res.accrued[res.asset].total_supplied,
                  res.before.markets[res.asset].total_borrowed),
              Add(res.accrued[res.asset].total_borrowed,
                  res.before.markets[res.asset].total_supplied))

\* C34: repay cannot over-repay and touches only the debt: a repay of more than
\* the total_borrowed after accrual fails and leaves the market unchanged; a
\* successful repay takes exactly its amount off the total_borrowed after
\* accrual and leaves total_supplied, total_supply_tokens, both cumulative
\* indices and every other field at their values after accrual.
C34_RepayOnlyDebt ==
    res.op = "repay" =>
        LET market == accrue_interest(res.before.markets[res.asset], res.time).m
        IN  /\ Gt(res.amount, market.total_borrowed)
                   => res.err # OK /\ markets = res.before.markets
            /\ res.err = OK
                   => /\ Le(res.amount, market.total_borrowed)
                      /\ markets = [res.before.markets EXCEPT ![res.asset] =
                             [market EXCEPT
                                 !.total_borrowed = Sub(market.total_borrowed, res.amount)]]

\* a repay of one more than the debt with its interest was rejected, after the
\* accrual and the transfer, and the market kept its totals and its timestamp
C34_Witness ==
    /\ res.op = "repay" /\ res.err = "MathOverflow"
    /\ Gt(res.accrued[res.asset].total_borrowed,
          res.before.markets[res.asset].total_borrowed)
    /\ res.amount = Add(res.accrued[res.asset].total_borrowed, ONE)
    /\ markets[res.asset].last_accrual_timestamp < res.time

\* C35: share supply is conserved: in every state each market's
\* total_supply_tokens equals the tokens minted by supply less the tokens burned
\* by withdraw, which is the supply of its share mint and the sum of the wallets'
\* share balances; an accrual, a borrow, a repay and a liquidate never change
\* total_supply_tokens.
C35_SharesConserved ==
    /\ \A a \in Assets :
            /\ markets[a].total_supply_tokens = shares[a]
            /\ shares[a] = Add(held["alice"][a], held["bob"][a])
            /\ res.accrued[a].total_supply_tokens = res.before.markets[a].total_supply_tokens
            /\ res.op \in {"borrow", "repay", "liquidate"}
                   => markets[a].total_supply_tokens
                          = res.before.markets[a].total_supply_tokens
    /\ (res.op = "supply" /\ res.err = OK)
           => Sub(markets[res.asset].total_supply_tokens,
                  res.before.markets[res.asset].total_supply_tokens)
                  = Sub(held[res.user][res.asset], res.before.held[res.user][res.asset])
    /\ (res.op = "withdraw" /\ res.err = OK)
           => /\ Add(markets[res.asset].total_supply_tokens, res.amount)
                     = res.before.markets[res.asset].total_supply_tokens
              /\ Add(held[res.user][res.asset], res.amount)
                     = res.before.held[res.user][res.asset]

\* a supply at an exchange rate above 1 minted fewer tokens than its amount into
\* a market that already had shares
C35_Witness ==
    /\ res.op = "supply" /\ res.err = OK
    /\ Gt(res.before.markets[res.asset].total_supply_tokens, ZERO)
    /\ Lt(Sub(markets[res.asset].total_supply_tokens,
              res.before.markets[res.asset].total_supply_tokens), res.amount)
    /\ Gt(markets[res.asset].total_borrowed, ZERO)

\* C36: no state has a paused market: create_market sets paused = false and no
\* instruction of the program sets it to true, so supply and borrow never
\* return MarketPaused.
C36_NeverPaused ==
    /\ \A a \in Assets : ~markets[a].paused
    /\ \A a \in Assets : ~res.left.markets[a].paused
    /\ res.err # "MarketPaused"

\* both markets exist, and a borrow has gone through the guard of a market
\* that a supply and an earlier borrow had already written
C36_Witness ==
    /\ \A a \in Assets : markets[a].exists
    /\ res.op = "borrow" /\ res.err = OK
    /\ Gt(res.before.markets[res.asset].total_borrowed, ZERO)
    /\ Gt(markets[res.asset].total_supply_tokens, ZERO)

====
